---- MODULE Spec2Model ----
(***************************************************************************)
(* The CH3F Exchange market engine: prices and price history per symbol,   *)
(* the listing registry, user balances and inventories, and the handlers   *)
(* that change them (scheduled tick, chart-view buy and sell, decay,       *)
(* admin adjustments, admin bankruptcy with its confirmation view, IPO).   *)
(*                                                                         *)
(* Money: stored prices and balances are counted in cents (the code rounds *)
(* every stored price to 2 decimals); random changes and admin amounts are *)
(* counted in mills (1/1000 of a CCD), so that round(x, 2) has work to do. *)
(* Handlers run on one asyncio loop: code between two awaits is one step.  *)
(***************************************************************************)
EXTENDS Integers, Sequences, FiniteSets, TLC

(* ------------------------------ bounds -------------------------------- *)
\* Handler runs explored from the start state.
MaxSteps == 3
\* Handler runs explored when only listing, bankruptcy and trading run.
MaxListingSteps == 5
\* Confirmation views that may be open for one symbol at a time.
MaxViews == 2
\* Handler runs explored when the decay pass and its preview run.
MaxDecaySteps == 3
\* Longest ranking, and largest threshold, the preview list is computed for.
MaxRanked == 5
\* Handler runs explored when the price state is reloaded between them.
MaxLoadSteps == 3
\* Handler runs explored when only the handlers that move money run.
MaxLedgerSteps == 4
\* Largest share count two symbols are compared at.
MaxShares == 3

(* --------------------------- configuration ---------------------------- *)
\* config.py; the model keeps two of the sixteen configured symbols, in their
\* configured order: the two that share one key in USER_TO_TICKER.
STOCK_SYMBOLS == << "$DAR", "$TOST" >>
\* The key/value pairs of the USER_TO_TICKER dict display, in source order.
USER_TO_TICKER_ITEMS ==
    << << "709565709696368671", "$DAR" >>,
       << "709565709696368671", "$TOST" >> >>
ADMIN_USER_IDS == { "126535729156194304" }
SELLING_FEE == 7
IPO_COST == 1000
DEFAULT_BALANCE == 50
STOCK_PRICE_MIN_CHANGE == -3
STOCK_PRICE_MAX_CHANGE == 3
NEW_STOCK_MIN_PRICE == 80
NEW_STOCK_MAX_PRICE == 90
STOCK_BUY_MIN_CHANGE == 3
STOCK_BUY_MAX_CHANGE == 9
STOCK_SELL_MIN_CHANGE == 3
STOCK_SELL_MAX_CHANGE == 9
\* The price floor max(1, ...) of tick, buy and sell.
PRICE_FLOOR == 1
\* The cap on the buffer of the decay-risk preview: min(3, ...).
RISK_BUFFER == 3
\* Decay settings read by decay.py; config.py does not set them.
STOCK_DECAY_THRESHOLD == 1
STOCK_DECAY_PERCENT == 10
STOCK_BANKRUPTCY_THRESHOLD == 1

(* ------------------------------ universe ------------------------------ *)
None == "None"
\* The users that act: the admin, who owns none of the symbols kept here, and
\* the owner id that USER_TO_TICKER names twice.
Owner == "709565709696368671"
Users == ADMIN_USER_IDS \cup { Owner }
SeqRange(q) == { q[i] : i \in 1..Len(q) }
\* The symbols that are traded or asked for: the configured ones and one that
\* create_stock accepts, made of the characters of $DAR in another order.
Symbols == SeqRange(STOCK_SYMBOLS) \cup { "$ADR" }
\* ord(c) of the characters of each symbol.
SymbolChars ==
    [ s \in Symbols |->
        CASE s = "$DAR"  -> << 36, 68, 65, 82 >>
          [] s = "$TOST" -> << 36, 84, 79, 83, 84 >>
          [] s = "$ADR"  -> << 36, 65, 68, 82 >> ]

(* ------------------------------ numbers ------------------------------- *)
Max(a, b) == IF a >= b THEN a ELSE b
Min(a, b) == IF a <= b THEN a ELSE b
\* CCD to cents, CCD to mills, cents to mills.
Cents(x) == x * 100
Mills(x) == x * 1000
CentsToMills(c) == c * 10
\* Nearest integer to n / d (d > 0); on an exact tie the binary float decides,
\* here the flag `up`.
RoundDiv(n, d, up) ==
    LET q == n \div d
        r == n % d
    IN  IF 2 * r < d THEN q
        ELSE IF 2 * r > d THEN q + 1
        ELSE IF up THEN q + 1 ELSE q
\* round(x, 2) of an amount in mills, as cents.
Round2(m, up) == RoundDiv(m, 10, up)

\* dict display: a later pair replaces an earlier pair with the same key.
DictLiteral(items) ==
    LET keys == { items[i][1] : i \in 1..Len(items) }
        last(k) == CHOOSE i \in 1..Len(items) :
                      /\ items[i][1] = k
                      /\ \A j \in 1..Len(items) : items[j][1] = k => j <= i
    IN  [ k \in keys |-> items[last(k)][2] ]
USER_TO_TICKER == DictLiteral(USER_TO_TICKER_ITEMS)

\* dict operations
DictSet(f, k, v) == [ x \in DOMAIN f \cup {k} |-> IF x = k THEN v ELSE f[x] ]
DictDel(f, k) == [ x \in DOMAIN f \ {k} |-> f[x] ]

(* -------------------------- inputs explored --------------------------- *)
\* random.uniform draws, in mills: the low end of each range and a value
\* just under the high end that is no whole number of cents.
TickChanges == { Mills(STOCK_PRICE_MIN_CHANGE), Mills(STOCK_PRICE_MAX_CHANGE) - 4 }
BuyChanges  == { Mills(STOCK_BUY_MIN_CHANGE), Mills(STOCK_BUY_MAX_CHANGE) - 4 }
SellChanges == { Mills(STOCK_SELL_MIN_CHANGE), Mills(STOCK_SELL_MAX_CHANGE) - 4 }
NewPrices   == { Mills(NEW_STOCK_MIN_PRICE), Mills(NEW_STOCK_MAX_PRICE) }
\* Symbols the IPO format r'^\$[A-Z0-9]{2,4}$' lets through, as character
\* codes: '$' and 2 to 4 characters, each the lowest ('0') or the highest
\* ('Z') code of the class.
IpoSymbols ==
    { << 36 >> \o tail :
        tail \in UNION { [ 1..n -> { 48, 90 } ] : n \in 2..4 } }
\* amounts a user passes to gift, in cents, besides the whole of their balance.
GiftAmounts == { 0, Cents(DEFAULT_BALANCE) }
\* What load_stocks may find at config.STOCKS_FILE: no file; a file that
\* cannot be opened; text that is not JSON; bytes that are not UTF-8; JSON that
\* is no dict; a dict without "PRICE_HISTORY"; a dict with both keys and empty
\* maps under them; the snapshot the last save wrote.
Snapshots == { "missing", "unreadable", "not_json", "not_utf8", "not_dict",
               "no_history_key", "empty_maps", "saved" }
\* amounts an admin passes to admin_add and to admin_sub, in mills.
AddAmounts == { Mills(5) + 5 }
SubAmounts == { Mills(79) + 996, Mills(82) + 500 }

VARIABLES
    stock_prices,     \* StockManager.stock_prices: symbol -> price (cents)
    price_history,    \* StockManager.price_history: symbol -> list of prices
    stock_symbols,    \* the listing, in listing order (get_all_symbols)
    user_to_ticker,   \* owner id -> symbol (get_user_stock, symbolOf)
    ticker_owner,     \* symbol -> owner id (ownerOf)
    balance,          \* user id -> balance (cents)
    inventory,        \* user id -> symbol -> shares held
    views,            \* symbol -> open BankruptConfirmView count
    lastOp,           \* the handler that ran last and how it ended
    steps             \* handler runs so far

vars == << stock_prices, price_history, stock_symbols, user_to_ticker,
           ticker_owner, balance, inventory, views, lastOp, steps >>

registry == << stock_symbols, user_to_ticker, ticker_owner >>
market == << stock_prices, price_history, registry >>
ledger == << balance, inventory >>

\* What lastOp records: the handler, who ran it on which symbol, how it ended
\* and what it returned. A trade or a pass that ended with an exception is
\* recorded without its arguments.
Op(op, user, sym, result, ret) ==
    IF \/ result \in { "ok", "rejected" }
       \/ op \in { "create", "confirm", "admin_add", "admin_sub", "admin_bankrupt" }
    THEN [ op |-> op, user |-> user, sym |-> sym, result |-> result,
           ret |-> IF result = "ok" THEN ret ELSE 0 ]
    ELSE [ op |-> op, user |-> None, sym |-> None, result |-> result, ret |-> 0 ]

(* ------------------------------ registry ------------------------------ *)
get_all_symbols == stock_symbols
Listed == SeqRange(stock_symbols)
get_user_stock(user_id) ==
    IF user_id \in DOMAIN user_to_ticker THEN user_to_ticker[user_id] ELSE None
\* The reverse of an owner -> symbol dict.
ReverseDict(u2t) ==
    [ s \in { u2t[o] : o \in DOMAIN u2t } |-> CHOOSE o \in DOMAIN u2t : u2t[o] = s ]

(* ------------------------------- start -------------------------------- *)
\* Mutant of InitPrices: the draws fall just outside the new-listing band.
InitPrices_OutOfBand ==
    { [ s \in SeqRange(STOCK_SYMBOLS) |->
          IF s = STOCK_SYMBOLS[1] THEN Round2(Mills(NEW_STOCK_MIN_PRICE) - 10, FALSE)
                                  ELSE Round2(Mills(NEW_STOCK_MAX_PRICE) + 10, FALSE) ] }
\* generate_new_stocks: every configured symbol gets a price from the
\* new-listing band and a one-entry history. Explored: the first symbol at the
\* low end of the band and the others at the high end.
InitPrices ==
    { [ s \in SeqRange(STOCK_SYMBOLS) |->
          IF s = STOCK_SYMBOLS[1] THEN Round2(Mills(NEW_STOCK_MIN_PRICE), FALSE)
                                  ELSE Round2(Mills(NEW_STOCK_MAX_PRICE), FALSE) ] }
\* Balances come from the user data file. Explored: the owner can pay an IPO,
\* the admin has that much or the default of a new user.
InitBalances ==
    { [ u \in Users |-> IF u = Owner THEN Cents(IPO_COST) ELSE b ] :
        b \in { Cents(DEFAULT_BALANCE), Cents(IPO_COST) } }
Init ==
    /\ stock_prices \in InitPrices
    /\ price_history = [ s \in SeqRange(STOCK_SYMBOLS) |-> << stock_prices[s] >> ]
    /\ stock_symbols = STOCK_SYMBOLS
    /\ user_to_ticker = USER_TO_TICKER
    /\ ticker_owner = ReverseDict(USER_TO_TICKER)
    /\ balance \in InitBalances
    /\ inventory = [ u \in Users |-> [ s \in Symbols |-> 0 ] ]
    /\ views = [ s \in Symbols |-> 0 ]
    /\ lastOp = Op("start", None, None, "ok", 0)
    /\ steps = 0

Step == steps' = steps + 1

(* ---------------------------- StockManager ---------------------------- *)
\* The two statements every price write of the code consists of:
\*   stock_prices[symbol] = round(new_price, 2)
\*   price_history[symbol].append(round(new_price, 2))
\* The first creates the key when it is missing, the second raises KeyError
\* when the symbol has no history list.
\* Mutant of Commit: the new price replaces the last history entry.
Commit_Overwrite(prices, hist, symbol, new_price) ==
    IF symbol \in DOMAIN hist
    THEN [ raised |-> FALSE,
           prices |-> DictSet(prices, symbol, new_price),
           hist   |-> [ hist EXCEPT ![symbol] =
                          Append(SubSeq(@, 1, Len(@) - 1), new_price) ] ]
    ELSE [ raised |-> TRUE,
           prices |-> DictSet(prices, symbol, new_price),
           hist   |-> hist ]
Commit(prices, hist, symbol, new_price) ==
    IF symbol \in DOMAIN hist
    THEN [ raised |-> FALSE,
           prices |-> DictSet(prices, symbol, new_price),
           hist   |-> [ hist EXCEPT ![symbol] = Append(@, new_price) ] ]
    ELSE [ raised |-> TRUE,
           prices |-> DictSet(prices, symbol, new_price),
           hist   |-> hist ]

\* new_price = max(1, price + change), rounded to 2 decimals.
TickPrice(price, change, up) ==
    Round2(Max(Mills(PRICE_FLOOR), CentsToMills(price) + change), up)
BuyPrice(price, change, up) ==
    Round2(Max(Mills(PRICE_FLOOR), CentsToMills(price) + change), up)
\* Mutant of SellPrice: the floor is missing.
SellPrice_NoFloor(price, change, up) ==
    Round2(CentsToMills(price) - change, up)
\* new_price = max(1, price - change), rounded to 2 decimals.
SellPrice(price, change, up) ==
    Round2(Max(Mills(PRICE_FLOOR), CentsToMills(price) - change), up)
\* price = stock_prices[symbol] - SELLING_FEE
SellReturn(price) == price - Cents(SELLING_FEE)

\* update_prices: one pass over config.STOCK_SYMBOLS, from position i on.
\* A symbol without a price ends the pass with KeyError; what was written
\* before stays written.
RECURSIVE update_prices_from(_, _, _, _, _)
update_prices_from(i, prices, hist, changes, up) ==
    IF i > Len(STOCK_SYMBOLS)
    THEN [ raised |-> FALSE, prices |-> prices, hist |-> hist ]
    ELSE LET symbol == STOCK_SYMBOLS[i] IN
         IF symbol \notin DOMAIN prices
         THEN [ raised |-> TRUE, prices |-> prices, hist |-> hist ]
         ELSE LET c == Commit(prices, hist, symbol,
                              TickPrice(prices[symbol], changes[symbol], up))
              IN  IF c.raised THEN c
                  ELSE update_prices_from(i + 1, c.prices, c.hist, changes, up)

update_prices ==
    \E changes \in [ SeqRange(STOCK_SYMBOLS) -> TickChanges ], up \in { FALSE } :
        LET r == update_prices_from(1, stock_prices, price_history, changes, up) IN
        /\ Step
        /\ stock_prices' = r.prices
        /\ price_history' = r.hist
        /\ lastOp' = Op("tick", None, None, IF r.raised THEN "KeyError" ELSE "ok", 0)
        /\ UNCHANGED << registry, ledger, views >>

\* Mutant of StockManager.buy_stock: the new price is computed from a price
\* read earlier (the first entry of the history), not from the current one.
StockManager_buy_stock_Stale(prices, hist, symbol, change, up) ==
    LET price == prices[symbol]
        stale == IF symbol \in DOMAIN hist THEN hist[symbol][1] ELSE price
        c == Commit(prices, hist, symbol, BuyPrice(stale, change, up))
    IN  [ raised |-> c.raised, prices |-> c.prices, hist |-> c.hist, ret |-> price ]
\* Mutant of StockManager.buy_stock: the price after the purchase is returned.
StockManager_buy_stock_ReturnsNew(prices, hist, symbol, change, up) ==
    LET c == Commit(prices, hist, symbol, BuyPrice(prices[symbol], change, up))
    IN  [ raised |-> c.raised, prices |-> c.prices, hist |-> c.hist,
          ret |-> c.prices[symbol] ]
\* StockManager.buy_stock(symbol), for a symbol that has a price.
StockManager_buy_stock(prices, hist, symbol, change, up) ==
    LET price == prices[symbol]
        c == Commit(prices, hist, symbol, BuyPrice(prices[symbol], change, up))
    IN  [ raised |-> c.raised, prices |-> c.prices, hist |-> c.hist, ret |-> price ]

\* Mutant of StockManager.sell_stock: the fee is taken off the price after
\* the sale, not off the price before it.
StockManager_sell_stock_FeeOffNew(prices, hist, symbol, change, up) ==
    LET c == Commit(prices, hist, symbol, SellPrice(prices[symbol], change, up))
    IN  [ raised |-> c.raised, prices |-> c.prices, hist |-> c.hist,
          ret |-> SellReturn(c.prices[symbol]) ]
\* StockManager.sell_stock(symbol), for a symbol that has a price.
StockManager_sell_stock(prices, hist, symbol, change, up) ==
    LET price == SellReturn(prices[symbol])
        c == Commit(prices, hist, symbol, SellPrice(prices[symbol], change, up))
    IN  [ raised |-> c.raised, prices |-> c.prices, hist |-> c.hist, ret |-> price ]

\* What the try block of load_stocks does with the snapshot: open() raises
\* FileNotFoundError or another OSError, json.load raises JSONDecodeError or,
\* while decoding the bytes, UnicodeDecodeError; otherwise the data is taken
\* when it is a dict with both keys, whatever is under them.
LoadOutcome(snapshot) ==
    CASE snapshot \in { "missing", "unreadable", "not_json" } -> "regenerate"
      [] snapshot = "not_utf8"                                -> "UnicodeDecodeError"
      [] snapshot \in { "not_dict", "no_history_key" }        -> "regenerate"
      [] snapshot \in { "empty_maps", "saved" }               -> "taken"

\* StockManager.load_stocks(), followed by generate_new_stocks() when the
\* snapshot is not taken. An exception that `except (json.JSONDecodeError,
\* IOError, FileNotFoundError)` does not name leaves the function.
load_stocks(snapshot) ==
    LET outcome == LoadOutcome(snapshot) IN
    /\ Step
    /\ lastOp' = [ op |-> "load", user |-> None, sym |-> None,
                   result |-> IF outcome = "UnicodeDecodeError" THEN outcome ELSE "ok",
                   ret |-> snapshot ]
    /\ CASE outcome = "regenerate" ->
              /\ stock_prices' \in InitPrices
              /\ price_history' =
                    [ s \in SeqRange(STOCK_SYMBOLS) |-> << stock_prices'[s] >> ]
         [] outcome = "taken" /\ snapshot = "empty_maps" ->
              /\ stock_prices' = << >>
              /\ price_history' = << >>
         [] OTHER ->
              UNCHANGED << stock_prices, price_history >>
    /\ UNCHANGED << registry, ledger, views >>

LoadStocks == \E snapshot \in Snapshots : load_stocks(snapshot)

(* ----------------------------- UserManager ---------------------------- *)
update_balance(bal, user, amount) == [ bal EXCEPT ![user] = @ + amount ]
add_item(inv, user, symbol) == [ inv EXCEPT ![user][symbol] = @ + 1 ]
remove_item(inv, user, symbol) == [ inv EXCEPT ![user][symbol] = Max(0, @ - 1) ]
\* `symbol in inv`
Holds(inv, user, symbol) == inv[user][symbol] > 0

(* ------------------------------ ChartView ----------------------------- *)
\* Mutant of ChartView.buy_stock: the buyer is charged the price after the
\* purchase.
ChartView_buy_stock_ChargesNew(user, symbol, change, up) ==
    /\ Step
    /\ IF symbol \notin DOMAIN stock_prices
       THEN /\ lastOp' = Op("buy", user, symbol, "KeyError", 0)
            /\ UNCHANGED << market, ledger, views >>
       ELSE LET price == stock_prices[symbol] IN
            IF balance[user] < price
            THEN /\ lastOp' = Op("buy", user, symbol, "rejected", 0)
                 /\ UNCHANGED << market, ledger, views >>
            ELSE LET r == StockManager_buy_stock(stock_prices, price_history,
                                                 symbol, change, up)
                 IN  /\ balance' = update_balance(balance, user, -r.prices[symbol])
                     /\ inventory' = add_item(inventory, user, symbol)
                     /\ stock_prices' = r.prices
                     /\ price_history' = r.hist
                     /\ lastOp' = Op("buy", user, symbol,
                                     IF r.raised THEN "KeyError" ELSE "ok", r.ret)
                     /\ UNCHANGED << registry, views >>
\* ChartView.buy_stock up to its first await.
ChartView_buy_stock(user, symbol, change, up) ==
    /\ Step
    /\ IF symbol \notin DOMAIN stock_prices
       THEN \* price = StockManager.stock_prices[self.symbol] raises
            /\ lastOp' = Op("buy", user, symbol, "KeyError", 0)
            /\ UNCHANGED << market, ledger, views >>
       ELSE LET price == stock_prices[symbol] IN
            IF balance[user] < price
            THEN /\ lastOp' = Op("buy", user, symbol, "rejected", 0)
                 /\ UNCHANGED << market, ledger, views >>
            ELSE LET r == StockManager_buy_stock(stock_prices, price_history,
                                                 symbol, change, up)
                 IN  /\ balance' = update_balance(balance, user, -price)
                     /\ inventory' = add_item(inventory, user, symbol)
                     /\ stock_prices' = r.prices
                     /\ price_history' = r.hist
                     /\ lastOp' = Op("buy", user, symbol,
                                     IF r.raised THEN "KeyError" ELSE "ok", r.ret)
                     /\ UNCHANGED << registry, views >>

\* Mutant of ChartView.sell_stock: the inventory is not looked at.
ChartView_sell_stock_NoInventoryCheck(user, symbol, change, up) ==
    /\ Step
    /\ IF symbol \notin DOMAIN stock_prices
       THEN /\ lastOp' = Op("sell", user, symbol, "KeyError", 0)
            /\ UNCHANGED << market, ledger, views >>
       ELSE LET r == StockManager_sell_stock(stock_prices, price_history,
                                             symbol, change, up)
            IN  /\ stock_prices' = r.prices
                /\ price_history' = r.hist
                /\ IF r.raised
                   THEN /\ lastOp' = Op("sell", user, symbol, "KeyError", 0)
                        /\ UNCHANGED ledger
                   ELSE /\ balance' = update_balance(balance, user, r.ret)
                        /\ inventory' = remove_item(inventory, user, symbol)
                        /\ lastOp' = Op("sell", user, symbol, "ok", r.ret)
                /\ UNCHANGED << registry, views >>
\* ChartView.sell_stock up to its first await.
ChartView_sell_stock(user, symbol, change, up) ==
    /\ Step
    /\ IF ~Holds(inventory, user, symbol)
       THEN /\ lastOp' = Op("sell", user, symbol, "rejected", 0)
            /\ UNCHANGED << market, ledger, views >>
       ELSE IF symbol \notin DOMAIN stock_prices
       THEN \* base_price = StockManager.stock_prices[self.symbol] raises
            /\ lastOp' = Op("sell", user, symbol, "KeyError", 0)
            /\ UNCHANGED << market, ledger, views >>
       ELSE LET r == StockManager_sell_stock(stock_prices, price_history,
                                             symbol, change, up)
            IN  /\ stock_prices' = r.prices
                /\ price_history' = r.hist
                /\ IF r.raised
                   THEN /\ lastOp' = Op("sell", user, symbol, "KeyError", 0)
                        /\ UNCHANGED ledger
                   ELSE /\ balance' = update_balance(balance, user, r.ret)
                        /\ inventory' = remove_item(inventory, user, symbol)
                        /\ lastOp' = Op("sell", user, symbol, "ok", r.ret)
                /\ UNCHANGED << registry, views >>

Buy  == \E u \in Users, s \in Symbols, ch \in BuyChanges, up \in { FALSE } :
            ChartView_buy_stock(u, s, ch, up)
Sell == \E u \in Users, s \in Symbols, ch \in SellChanges, up \in { FALSE } :
            ChartView_sell_stock(u, s, ch, up)

(* -------------------------------- gift -------------------------------- *)
\* gift(ctx, user, amount): the amount moves from the author to the user when
\* it is positive and the author's balance covers it.
gift(author, user, amount) ==
    /\ Step
    /\ IF amount <= 0
       THEN /\ lastOp' = Op("gift", author, None, "invalid", 0)
            /\ UNCHANGED << market, ledger, views >>
       ELSE IF balance[author] < amount
       THEN /\ lastOp' = Op("gift", author, None, "rejected", 0)
            /\ UNCHANGED << market, ledger, views >>
       ELSE /\ balance' = update_balance(update_balance(balance, author, -amount),
                                         user, amount)
            /\ lastOp' = Op("gift", author, None, "ok", amount)
            /\ UNCHANGED << market, inventory, views >>

Gift == \E author \in Users, user \in Users :
            \E amount \in GiftAmounts \cup { balance[author] } :
                gift(author, user, amount)

(* ----------------------------- DecayManager --------------------------- *)
RECURSIVE SumSeq(_)
SumSeq(q) == IF q = << >> THEN 0 ELSE Head(q) + SumSeq(Tail(q))
RECURSIVE SumOver(_, _)
SumOver(S, f) ==
    IF S = {} THEN 0
    ELSE LET x == CHOOSE y \in S : TRUE IN f[x] + SumOver(S \ {x}, f)

\* total shares of the symbol over all inventories (quantity > 0 only).
TotalShares(inv, symbol) ==
    SumOver(DOMAIN inv, [ u \in DOMAIN inv |-> Max(0, inv[u][symbol]) ])
\* sum(ord(c) / 10000.0 for c in symbol), counted in 1/10000.
SymbolValue(symbol) == SumSeq(SymbolChars[symbol])
\* Mutant of popularity_score: the tie-break term is ord(c) / 100.0.
popularity_score_Coarse(shares, chars) == shares * 10000 + SumSeq(chars) * 100
\* popularity_scores[symbol] = shares + sum(ord(c) / 10000.0 for c in symbol),
\* counted in 1/10000, for a symbol given by its character codes.
popularity_score(shares, chars) == shares * 10000 + SumSeq(chars)
\* _calculate_stock_popularity: shares + symbol_value, counted in 1/10000.
Popularity(inv, symbol) ==
    popularity_score(TotalShares(inv, symbol), SymbolChars[symbol])

\* sorted(items, key=score): ascending and stable, so equal scores keep
\* the order of get_all_symbols().
RECURSIVE InsertSorted(_, _, _)
InsertSorted(sorted, x, key) ==
    IF sorted = << >> THEN << x >>
    ELSE IF key[x] < key[Head(sorted)] THEN << x >> \o sorted
    ELSE << Head(sorted) >> \o InsertSorted(Tail(sorted), x, key)
RECURSIVE SortedBy(_, _)
SortedBy(q, key) ==
    IF q = << >> THEN << >>
    ELSE InsertSorted(SortedBy(SubSeq(q, 1, Len(q) - 1), key), q[Len(q)], key)

sorted_stocks(symbols, inv) ==
    SortedBy(symbols, [ s \in SeqRange(symbols) |-> Popularity(inv, s) ])

\* Mutants of DecayPrice: the percentage is taken off as an amount; the
\* minimum of 0.01 is missing.
DecayPrice_Amount(price, up) ==
    RoundDiv(Max(100, (price - Cents(STOCK_DECAY_PERCENT)) * 100), 100, up)
DecayPrice_NoMinimum(price, up) ==
    RoundDiv(price * (100 - STOCK_DECAY_PERCENT), 100, up)
\* new_price = round(max(0.01, current_price * (1 - STOCK_DECAY_PERCENT / 100)), 2)
\* with the product counted in 1/100 of a cent.
DecayPrice(price, up) ==
    RoundDiv(Max(100, price * (100 - STOCK_DECAY_PERCENT)), 100, up)

\* the loop `for symbol, _ in stocks_to_decay`, from position i on.
RECURSIVE decay_from(_, _, _, _, _)
decay_from(i, to_decay, prices, hist, up) ==
    IF i > Len(to_decay)
    THEN [ raised |-> FALSE, prices |-> prices, hist |-> hist, decayed |-> << >> ]
    ELSE LET symbol == to_decay[i] IN
         IF symbol \notin DOMAIN prices
         THEN decay_from(i + 1, to_decay, prices, hist, up)
         ELSE LET c == Commit(prices, hist, symbol, DecayPrice(prices[symbol], up)) IN
              IF c.raised
              THEN [ raised |-> TRUE, prices |-> c.prices, hist |-> c.hist,
                     decayed |-> << >> ]
              ELSE LET rest == decay_from(i + 1, to_decay, c.prices, c.hist, up) IN
                   [ rest EXCEPT !.decayed = << symbol >> \o @ ]

\* Mutant of stocks_to_decay: the slice is taken from the wrong end of the
\* ranking.
stocks_to_decay_MostPopular(symbols, inv) ==
    LET total_stocks == Len(symbols)
        excess_stocks == total_stocks - STOCK_DECAY_THRESHOLD
    IN  IF total_stocks <= STOCK_DECAY_THRESHOLD THEN << >>
        ELSE SubSeq(sorted_stocks(symbols, inv),
                    total_stocks - Min(excess_stocks, total_stocks) + 1, total_stocks)
\* Mutant of stocks_to_decay: the threshold test and the excess are off by one.
stocks_to_decay_OffByOne(symbols, inv) ==
    LET total_stocks == Len(symbols)
        excess_stocks == total_stocks - STOCK_DECAY_THRESHOLD + 1
    IN  IF total_stocks < STOCK_DECAY_THRESHOLD THEN << >>
        ELSE SubSeq(sorted_stocks(symbols, inv), 1, Min(excess_stocks, total_stocks))
\* what apply_stock_decay selects: the first excess_stocks of the ranking.
stocks_to_decay(symbols, inv) ==
    LET total_stocks == Len(symbols)
        excess_stocks == total_stocks - STOCK_DECAY_THRESHOLD
    IN  IF total_stocks <= STOCK_DECAY_THRESHOLD THEN << >>
        ELSE SubSeq(sorted_stocks(symbols, inv), 1, Min(excess_stocks, total_stocks))

apply_stock_decay ==
    \E up \in BOOLEAN :
        LET r == decay_from(1, stocks_to_decay(get_all_symbols, inventory),
                            stock_prices, price_history, up)
        IN  /\ Step
            /\ stock_prices' = r.prices
            /\ price_history' = r.hist
            /\ lastOp' = Op("decay", None, None,
                            IF r.raised THEN "KeyError" ELSE "ok", r.decayed)
            /\ UNCHANGED << registry, ledger, views >>

\* risk_factor of the entry at 0-based position i of the slice, counted in
\* tenths of a percent: 100.0 for the excess, and
\* 100 - (buffer_position * 75 / buffer if buffer > 0 else 0) for the buffer.
\* The division is exact for every buffer of 1, 2 or 3.
risk_factor(i, excess_stocks, buffer) ==
    IF i < excess_stocks
    THEN 1000
    ELSE LET buffer_position == i - excess_stocks IN
         1000 - (IF buffer > 0 THEN (buffer_position * 750) \div buffer ELSE 0)

\* Mutant of risk_stocks: the buffer is not capped.
risk_stocks_NoCap(sorted, threshold) ==
    LET total_stocks == Len(sorted)
        excess_stocks == total_stocks - threshold
        buffer == Len(sorted) - excess_stocks
        risk_count == Max(0, Min(Len(sorted), excess_stocks + buffer))
    IN  IF total_stocks <= threshold THEN << >>
        ELSE [ n \in 1..risk_count |->
                 << sorted[n], risk_factor(n - 1, excess_stocks, buffer) >> ]
\* The list get_decay_risk_stocks builds from the ascending ranking: the
\* slice sorted_stocks[:risk_count] with the risk factor of each position.
risk_stocks(sorted, threshold) ==
    LET total_stocks == Len(sorted)
        excess_stocks == total_stocks - threshold
        buffer == Min(RISK_BUFFER, Len(sorted) - excess_stocks)
        risk_count == Max(0, Min(Len(sorted), excess_stocks + buffer))
    IN  IF total_stocks <= threshold THEN << >>
        ELSE [ n \in 1..risk_count |->
                 << sorted[n], risk_factor(n - 1, excess_stocks, buffer) >> ]

\* Mutant of get_decay_risk_stocks: the preview applies the decay it previews.
get_decay_risk_stocks_Applies ==
    LET r == decay_from(1, stocks_to_decay(get_all_symbols, inventory),
                        stock_prices, price_history, FALSE)
    IN  /\ Step
        /\ stock_prices' = r.prices
        /\ price_history' = r.hist
        /\ lastOp' = Op("risk", None, None, "ok",
                        risk_stocks(sorted_stocks(get_all_symbols, inventory),
                                    STOCK_DECAY_THRESHOLD))
        /\ UNCHANGED << registry, ledger, views >>
\* DecayManager.get_decay_risk_stocks(): it reads the listing and the
\* holdings, and assigns to nothing but its locals.
get_decay_risk_stocks ==
    /\ Step
    /\ lastOp' = Op("risk", None, None, "ok",
                    risk_stocks(sorted_stocks(get_all_symbols, inventory),
                                STOCK_DECAY_THRESHOLD))
    /\ UNCHANGED << market, ledger, views >>

(* --------------------------- admin commands --------------------------- *)
\* The target of an admin command: a ticker, or the mention of a user.
ResolveTarget(target) ==
    IF target \in Symbols
    THEN IF target \in SeqRange(get_all_symbols) THEN target ELSE None
    ELSE get_user_stock(target)

\* round(current_price + amount_value, 2) and round(current_price - amount_value, 2)
AdminAddPrice(price, amount, up) == Round2(CentsToMills(price) + amount, up)
AdminSubPrice(price, amount, up) == Round2(CentsToMills(price) - amount, up)
\* `if new_price <= 0: return`, on the unrounded new price (mills).
AdminRejects(new_price) == new_price <= 0

\* Mutant of admin_adjust: the permission check is missing.
admin_adjust_NoPermission(op, author, target, amount, up) ==
    LET symbol == ResolveTarget(target) IN
    /\ Step
    /\ IF symbol = None
       THEN /\ lastOp' = Op(op, author, None, "not found", 0)
            /\ UNCHANGED << market, ledger, views >>
       ELSE IF symbol \notin DOMAIN stock_prices
       THEN /\ lastOp' = Op(op, author, symbol, "KeyError", 0)
            /\ UNCHANGED << market, ledger, views >>
       ELSE LET current_price == stock_prices[symbol]
                new_price == IF op = "admin_add"
                             THEN CentsToMills(current_price) + amount
                             ELSE CentsToMills(current_price) - amount
                stored == IF op = "admin_add"
                          THEN AdminAddPrice(current_price, amount, up)
                          ELSE AdminSubPrice(current_price, amount, up)
                c == Commit(stock_prices, price_history, symbol, stored)
            IN  IF AdminRejects(new_price)
                THEN /\ lastOp' = Op(op, author, symbol, "rejected", 0)
                     /\ UNCHANGED << market, ledger, views >>
                ELSE /\ stock_prices' = c.prices
                     /\ price_history' = c.hist
                     /\ lastOp' = Op(op, author, symbol,
                                     IF c.raised THEN "KeyError" ELSE "ok", stored)
                     /\ UNCHANGED << registry, ledger, views >>
\* admin_add and admin_sub share everything but the sign.
admin_adjust(op, author, target, amount, up) ==
    LET symbol == ResolveTarget(target) IN
    /\ Step
    /\ IF author \notin ADMIN_USER_IDS
       THEN /\ lastOp' = Op(op, author, None, "permission", 0)
            /\ UNCHANGED << market, ledger, views >>
       ELSE IF symbol = None
       THEN /\ lastOp' = Op(op, author, None, "not found", 0)
            /\ UNCHANGED << market, ledger, views >>
       ELSE IF symbol \notin DOMAIN stock_prices
       THEN /\ lastOp' = Op(op, author, symbol, "KeyError", 0)
            /\ UNCHANGED << market, ledger, views >>
       ELSE LET current_price == stock_prices[symbol]
                new_price == IF op = "admin_add"
                             THEN CentsToMills(current_price) + amount
                             ELSE CentsToMills(current_price) - amount
                stored == IF op = "admin_add"
                          THEN AdminAddPrice(current_price, amount, up)
                          ELSE AdminSubPrice(current_price, amount, up)
                c == Commit(stock_prices, price_history, symbol, stored)
            IN  IF AdminRejects(new_price)
                THEN /\ lastOp' = Op(op, author, symbol, "rejected", 0)
                     /\ UNCHANGED << market, ledger, views >>
                ELSE /\ stock_prices' = c.prices
                     /\ price_history' = c.hist
                     /\ lastOp' = Op(op, author, symbol,
                                     IF c.raised THEN "KeyError" ELSE "ok", stored)
                     /\ UNCHANGED << registry, ledger, views >>

AdminTargets == Symbols \cup { Owner }
admin_add ==
    \E a \in Users, t \in AdminTargets, amt \in AddAmounts, up \in BOOLEAN :
        admin_adjust("admin_add", a, t, amt, up)
admin_sub ==
    \E a \in Users, t \in AdminTargets, amt \in SubAmounts, up \in BOOLEAN :
        admin_adjust("admin_sub", a, t, amt, up)

(* ----------------------------- bankruptcy ----------------------------- *)
\* admin_bankrupt: permission check, target lookup, then the confirmation
\* message with a BankruptConfirmView (original_user = the admin).
admin_bankrupt(author, target) ==
    LET symbol == ResolveTarget(target) IN
    /\ Step
    /\ UNCHANGED << market, ledger >>
    /\ IF author \notin ADMIN_USER_IDS
       THEN /\ lastOp' = Op("admin_bankrupt", author, None, "permission", 0)
            /\ UNCHANGED views
       ELSE IF symbol = None
       THEN /\ lastOp' = Op("admin_bankrupt", author, None, "not found", 0)
            /\ UNCHANGED views
       ELSE /\ views[symbol] < MaxViews
            /\ views' = [ views EXCEPT ![symbol] = @ + 1 ]
            /\ lastOp' = Op("admin_bankrupt", author, symbol, "ok", 0)

\* The holders handle_bankruptcy reports: users with a position in the symbol.
Holders(inv, symbol) == { u \in DOMAIN inv : inv[u][symbol] > 0 }
\* handle_bankruptcy, steps (b) and (c): zero every position in the symbol and
\* remove the symbol from the registry and from the price store.
purge_positions(inv, symbol) == [ u \in DOMAIN inv |-> [ inv[u] EXCEPT ![symbol] = 0 ] ]
RemoveFromSeq(q, x) == SelectSeq(q, LAMBDA y : y # x)
remove_owner(u2t, symbol) ==
    [ o \in { k \in DOMAIN u2t : u2t[k] # symbol } |-> u2t[o] ]

\* The sentinel BankruptConfirmView.confirm writes before it calls
\* handle_bankruptcy: StockManager.stock_prices[self.symbol] = 0
Sentinel(prices, symbol) == DictSet(prices, symbol, 0)

\* BankruptConfirmView.confirm. query_ok: whether the holdings query of
\* handle_bankruptcy answers.
confirm(clicker, symbol, query_ok) ==
    /\ Step
    /\ views[symbol] > 0
    /\ IF clicker \notin ADMIN_USER_IDS
       THEN \* interaction.user.id != self.original_user.id
            /\ lastOp' = Op("confirm", clicker, symbol, "permission", 0)
            /\ UNCHANGED << market, ledger, views >>
       ELSE IF symbol \notin SeqRange(get_all_symbols)
       THEN \* handle_bankruptcy: the symbol does not exist
            /\ stock_prices' = Sentinel(stock_prices, symbol)
            /\ lastOp' = Op("confirm", clicker, symbol, "UnknownSymbol", 0)
            /\ UNCHANGED << price_history, registry, ledger, views >>
       ELSE IF ~query_ok
       THEN \* handle_bankruptcy: step (a) fails
            /\ stock_prices' = Sentinel(stock_prices, symbol)
            /\ lastOp' = Op("confirm", clicker, symbol, "DependencyUnavailable", 0)
            /\ UNCHANGED << price_history, registry, ledger, views >>
       ELSE /\ stock_prices' = DictDel(Sentinel(stock_prices, symbol), symbol)
            /\ price_history' = DictDel(price_history, symbol)
            /\ stock_symbols' = RemoveFromSeq(stock_symbols, symbol)
            /\ user_to_ticker' = remove_owner(user_to_ticker, symbol)
            /\ ticker_owner' = DictDel(ticker_owner, symbol)
            /\ inventory' = purge_positions(inventory, symbol)
            /\ views' = [ views EXCEPT ![symbol] = @ - 1 ]
            /\ lastOp' = Op("confirm", clicker, symbol, "ok",
                            Holders(inventory, symbol))
            /\ UNCHANGED balance

\* BankruptConfirmView.cancel: the message loses its view, nothing else.
cancel(clicker, symbol) ==
    /\ Step
    /\ views[symbol] > 0
    /\ views' = [ views EXCEPT ![symbol] = @ - 1 ]
    /\ lastOp' = Op("cancel", clicker, symbol, "ok", 0)
    /\ UNCHANGED << market, ledger >>

AdminBankrupt == \E a \in Users, t \in AdminTargets : admin_bankrupt(a, t)
Confirm == \E u \in Users, s \in Symbols, ok \in BOOLEAN : confirm(u, s, ok)
Cancel == \E u \in Users, s \in Symbols : cancel(u, s)

(* -------------------------------- IPO --------------------------------- *)
\* The two rejections of create_stock that come before any charge.
\* Mutants of the two duplicate checks: the check is missing.
DuplicateOwner_Never(user_id) == FALSE
DuplicateSymbol_Never(symbol) == FALSE
DuplicateOwner(user_id) == get_user_stock(user_id) # None
DuplicateSymbol(symbol) == symbol \in SeqRange(get_all_symbols)

\* Mutant of create_stock: the charge is not refunded when add_stock fails.
create_stock_NoRefund(author, symbol, price, add_ok) ==
    /\ Step
    /\ UNCHANGED << inventory, views >>
    /\ IF DuplicateOwner(author)
       THEN /\ lastOp' = Op("create", author, symbol, "DuplicateOwner", 0)
            /\ UNCHANGED << market, balance >>
       ELSE IF DuplicateSymbol(symbol)
       THEN /\ lastOp' = Op("create", author, symbol, "DuplicateSymbol", 0)
            /\ UNCHANGED << market, balance >>
       ELSE IF balance[author] < Cents(IPO_COST)
       THEN /\ lastOp' = Op("create", author, symbol, "insufficient", 0)
            /\ UNCHANGED << market, balance >>
       ELSE IF ~add_ok
       THEN /\ balance' = update_balance(balance, author, -Cents(IPO_COST))
            /\ lastOp' = Op("create", author, symbol, "error", 0)
            /\ UNCHANGED market
       ELSE /\ balance' = update_balance(balance, author, -Cents(IPO_COST))
            /\ stock_symbols' = Append(stock_symbols, symbol)
            /\ user_to_ticker' = DictSet(user_to_ticker, author, symbol)
            /\ ticker_owner' = DictSet(ticker_owner, symbol, author)
            /\ stock_prices' = DictSet(stock_prices, symbol, price)
            /\ price_history' = DictSet(price_history, symbol, << price >>)
            /\ lastOp' = Op("create", author, symbol, "ok", price)
\* create_stock for a well-formed symbol. price: the draw from the new-listing
\* band; add_ok: whether StockManager.add_stock reports success.
create_stock(author, symbol, price, add_ok) ==
    /\ Step
    /\ UNCHANGED << inventory, views >>
    /\ IF DuplicateOwner(author)
       THEN /\ lastOp' = Op("create", author, symbol, "DuplicateOwner", 0)
            /\ UNCHANGED << market, balance >>
       ELSE IF DuplicateSymbol(symbol)
       THEN /\ lastOp' = Op("create", author, symbol, "DuplicateSymbol", 0)
            /\ UNCHANGED << market, balance >>
       ELSE IF balance[author] < Cents(IPO_COST)
       THEN /\ lastOp' = Op("create", author, symbol, "insufficient", 0)
            /\ UNCHANGED << market, balance >>
       ELSE IF ~add_ok
       THEN \* charged, add_stock failed, refunded
            /\ balance' = update_balance(update_balance(balance, author,
                                             -Cents(IPO_COST)), author, Cents(IPO_COST))
            /\ lastOp' = Op("create", author, symbol, "error", 0)
            /\ UNCHANGED market
       ELSE /\ balance' = update_balance(balance, author, -Cents(IPO_COST))
            /\ stock_symbols' = Append(stock_symbols, symbol)
            /\ user_to_ticker' = DictSet(user_to_ticker, author, symbol)
            /\ ticker_owner' = DictSet(ticker_owner, symbol, author)
            /\ stock_prices' = DictSet(stock_prices, symbol, price)
            /\ price_history' = DictSet(price_history, symbol, << price >>)
            /\ lastOp' = Op("create", author, symbol, "ok", price)

CreateStock ==
    \E u \in Users, s \in Symbols, p \in NewPrices, ok \in BOOLEAN :
        create_stock(u, s, Round2(p, FALSE), ok)

(* --------------------------- specifications --------------------------- *)
\* Every handler, in any order.
Next ==
    \/ steps < MaxSteps /\ update_prices
    \/ steps < MaxSteps /\ Buy
    \/ steps < MaxSteps /\ Sell
    \/ steps < MaxSteps /\ apply_stock_decay
    \/ steps < MaxSteps /\ admin_add
    \/ steps < MaxSteps /\ admin_sub
    \/ steps < MaxSteps /\ AdminBankrupt
    \/ steps < MaxSteps /\ Confirm
    \/ steps < MaxSteps /\ Cancel
    \/ steps < MaxSteps /\ CreateStock

Spec == Init /\ [][Next]_vars

\* The price operations alone: tick, buy, sell, decay and admin adjustments.
NextMarket ==
    \/ steps < MaxSteps /\ update_prices
    \/ steps < MaxSteps /\ Buy
    \/ steps < MaxSteps /\ Sell
    \/ steps < MaxSteps /\ apply_stock_decay
    \/ steps < MaxSteps /\ admin_add
    \/ steps < MaxSteps /\ admin_sub

SpecMarket == Init /\ [][NextMarket]_vars

\* Listing, bankruptcy and trading alone.
NextListing ==
    \/ steps < MaxListingSteps /\ Buy
    \/ steps < MaxListingSteps /\ Sell
    \/ steps < MaxListingSteps /\ AdminBankrupt
    \/ steps < MaxListingSteps /\ Confirm
    \/ steps < MaxListingSteps /\ Cancel
    \/ steps < MaxListingSteps /\ CreateStock

SpecListing == Init /\ [][NextListing]_vars

\* The decay pass and its preview, over listings that grow and shrink.
NextDecay ==
    \/ steps < MaxDecaySteps /\ Buy
    \/ steps < MaxDecaySteps /\ CreateStock
    \/ steps < MaxDecaySteps /\ AdminBankrupt
    \/ steps < MaxDecaySteps /\ Confirm
    \/ steps < MaxDecaySteps /\ apply_stock_decay
    \/ steps < MaxDecaySteps /\ get_decay_risk_stocks

SpecDecay == Init /\ [][NextDecay]_vars

\* Price state reloaded between handlers.
NextLoad ==
    \/ steps < MaxLoadSteps /\ update_prices
    \/ steps < MaxLoadSteps /\ Buy
    \/ steps < MaxLoadSteps /\ Sell
    \/ steps < MaxLoadSteps /\ CreateStock
    \/ steps < MaxLoadSteps /\ LoadStocks

SpecLoad == Init /\ [][NextLoad]_vars

\* The handlers that move money, with admin_sub to move a price.
NextLedger ==
    \/ steps < MaxLedgerSteps /\ Gift
    \/ steps < MaxLedgerSteps /\ Buy
    \/ steps < MaxLedgerSteps /\ Sell
    \/ steps < MaxLedgerSteps /\ CreateStock
    \/ steps < MaxLedgerSteps /\ admin_sub

SpecLedger == Init /\ [][NextLedger]_vars

(* ------------------------------- claims ------------------------------- *)
Last(q) == q[Len(q)]
\* The step just taken committed a price for the symbol.
CommitsOn(s) ==
    /\ lastOp'.result = "ok"
    /\ \/ lastOp'.op \in { "buy", "sell", "admin_add", "admin_sub" } /\ lastOp'.sym = s
       \/ lastOp'.op = "tick" /\ s \in SeqRange(STOCK_SYMBOLS)
       \/ lastOp'.op = "decay" /\ s \in SeqRange(lastOp'.ret)

\* C1: after every completed handler, the current price of each listed symbol
\* is the last entry of that symbol's price history.
C1_PriceIsLastHistory ==
    \A s \in Listed :
        /\ s \in DOMAIN stock_prices
        /\ s \in DOMAIN price_history
        /\ stock_prices[s] = Last(price_history[s])

\* C2: while a symbol stays listed its history is append-only: a step leaves
\* it as it was or appends exactly one entry, the new current price, and every
\* commit on the symbol appends.
C2_HistoryAppendOnly ==
    [][ \A s \in Listed :
          s \in Listed' =>
            /\ \/ price_history'[s] = price_history[s]
               \/ price_history'[s] = Append(price_history[s], stock_prices'[s])
            /\ CommitsOn(s) =>
                 price_history'[s] = Append(price_history[s], stock_prices'[s])
      ]_vars
C2_Witness ==
    \E s \in Listed :
        /\ Len(price_history[s]) >= 3
        /\ lastOp.result = "ok"
        /\ lastOp.op = "sell"
        /\ lastOp.sym = s

\* C3: every price that tick, buy, sell or decay commits for a symbol is
\* computed from the last entry of the symbol's history, and is appended to
\* it: no commit starts from a stale price and none is lost.
InRange(x, lo, hi) == lo <= x /\ x <= hi
C3_CommitFromPreviousLast ==
    [][ \A s \in Listed :
          CommitsOn(s) =>
            LET prev == Last(price_history[s])
                new  == Last(price_history'[s])
                floor == Cents(PRICE_FLOOR)
            IN  /\ Len(price_history'[s]) = Len(price_history[s]) + 1
                /\ lastOp'.op = "buy" =>
                     InRange(new, Max(floor, prev + Cents(STOCK_BUY_MIN_CHANGE)),
                                  Max(floor, prev + Cents(STOCK_BUY_MAX_CHANGE)))
                /\ lastOp'.op = "sell" =>
                     InRange(new, Max(floor, prev - Cents(STOCK_SELL_MAX_CHANGE)),
                                  Max(floor, prev - Cents(STOCK_SELL_MIN_CHANGE)))
                /\ lastOp'.op = "tick" =>
                     InRange(new, Max(floor, prev + Cents(STOCK_PRICE_MIN_CHANGE)),
                                  Max(floor, prev + Cents(STOCK_PRICE_MAX_CHANGE)))
                /\ lastOp'.op = "decay" =>
                     InRange(100 * new,
                             Max(100, prev * (100 - STOCK_DECAY_PERCENT)) - 50,
                             Max(100, prev * (100 - STOCK_DECAY_PERCENT)) + 50)
      ]_vars
\* two buys of one symbol in a row, the second on top of the first
C3_Witness ==
    \E s \in Listed :
        /\ lastOp.op = "buy" /\ lastOp.result = "ok" /\ lastOp.sym = s
        /\ Len(price_history[s]) = 3
        /\ TotalShares(inventory, s) = 2
        /\ price_history[s][3] > price_history[s][2]
        /\ price_history[s][2] > price_history[s][1]

\* C4: once a confirm step has run, no listed symbol is left with a price
\* of 0 or less for another handler to see.
C4_NoListedSentinel ==
    lastOp.op = "confirm" =>
        \A s \in Listed : s \in DOMAIN stock_prices /\ stock_prices[s] > 0

\* C5: every price that a tick or a sell writes is at or above the price
\* floor, whatever the price was before.
C5_TickSellFloor ==
    [][ lastOp'.op \in { "tick", "sell" } =>
          \A s \in DOMAIN stock_prices' :
              ( \/ s \notin DOMAIN stock_prices
                \/ stock_prices'[s] # stock_prices[s]
                \/ /\ s \in DOMAIN price_history /\ s \in DOMAIN price_history'
                   /\ price_history'[s] # price_history[s] )
              => stock_prices'[s] >= Cents(PRICE_FLOOR)
      ]_vars
\* a sell from a price below the floor
C5_Witness ==
    /\ lastOp.op = "sell" /\ lastOp.result = "ok"
    /\ LET h == price_history[lastOp.sym] IN
         /\ Len(h) >= 2
         /\ h[Len(h) - 1] < Cents(PRICE_FLOOR)
         /\ Last(h) = Cents(PRICE_FLOOR)
         /\ stock_prices[lastOp.sym] = Last(h)

\* C6: a completed bankruptcy leaves its symbol out of the listing, of the
\* prices and of the histories with every position in it zeroed, and in every
\* state no user holds a position in a symbol that is not listed.
C6_BankruptcyAtomic ==
    /\ ( lastOp.op = "confirm" /\ lastOp.result = "ok" ) =>
          /\ lastOp.sym \notin Listed
          /\ lastOp.sym \notin DOMAIN stock_prices
          /\ lastOp.sym \notin DOMAIN price_history
          /\ \A u \in Users : inventory[u][lastOp.sym] = 0
    /\ \A u \in Users, s \in Symbols : inventory[u][s] > 0 => s \in Listed

\* C7: a confirm whose holdings query fails changes nothing: the listing, the
\* prices, the histories and every position are as before.
C7_FailedQueryNoChange ==
    [][ ( lastOp'.op = "confirm" /\ lastOp'.result = "DependencyUnavailable" )
          => UNCHANGED << market, ledger >> ]_vars

C9_OwnerLookupsAgree ==
    \A s \in Listed :
        /\ s \in DOMAIN ticker_owner
        /\ get_user_stock(ticker_owner[s]) = s

\* C10: a create for a symbol that is listed, or by an owner who has a listing,
\* fails as DuplicateSymbol or DuplicateOwner and leaves the listing, the owner
\* maps, the prices, the histories, the balances and the positions as they were.
C10_DuplicateCreateFails ==
    [][ ( /\ lastOp'.op = "create"
          /\ \/ lastOp'.sym \in Listed
             \/ /\ lastOp'.user \in DOMAIN user_to_ticker
                /\ user_to_ticker[lastOp'.user] # None )
        => /\ lastOp'.result \in { "DuplicateSymbol", "DuplicateOwner" }
           /\ UNCHANGED << market, ledger >> ]_vars
\* a create of a listed symbol by a requester who has no listing and can pay
C10_Witness ==
    /\ lastOp.op = "create" /\ lastOp.result = "DuplicateSymbol"
    /\ lastOp.sym \in Listed
    /\ get_user_stock(lastOp.user) = None
    /\ balance[lastOp.user] >= Cents(IPO_COST)

\* C11: a decay pass over a listing larger than the threshold decays exactly
\* min(excess, total) symbols, all listed, and none of them has a higher
\* popularity score than a symbol it spares.
C11_DecaysLowestExcess ==
    lastOp.op = "decay" =>
        /\ lastOp.result = "ok"
        /\ Len(stock_symbols) > STOCK_DECAY_THRESHOLD =>
             LET total  == Len(stock_symbols)
                 excess == total - STOCK_DECAY_THRESHOLD
                 D      == SeqRange(lastOp.ret)
             IN  /\ Len(lastOp.ret) = Min(excess, total)
                 /\ Cardinality(D) = Len(lastOp.ret)
                 /\ D \subseteq Listed
                 /\ \A d \in D, o \in Listed \ D :
                        Popularity(inventory, d) <= Popularity(inventory, o)
\* a pass whose choice the holdings decide: the symbol with the lower
\* tie-break term is held, so the other one decays
C11_Witness ==
    /\ lastOp.op = "decay" /\ lastOp.result = "ok"
    /\ stock_symbols = STOCK_SYMBOLS
    /\ lastOp.ret = << "$TOST" >>
    /\ TotalShares(inventory, "$DAR") > 0
    /\ SymbolValue("$DAR") < SymbolValue("$TOST")

\* C12: the decay set depends on the listing set and the holdings only: every
\* order in which the listed symbols could be stored selects the same set.
Orderings(S) ==
    { q \in [ 1..Cardinality(S) -> S ] : { q[i] : i \in DOMAIN q } = S }
C12_SelectionIgnoresOrder ==
    \A q \in Orderings(Listed) :
        SeqRange(stocks_to_decay(q, inventory))
            = SeqRange(stocks_to_decay(stock_symbols, inventory))

\* C13: two distinct listed symbols never have the same tie-break term, so
\* with equal shares held they never have the same popularity score.
C13_TieBreakDistinct ==
    \A s1 \in Listed, s2 \in Listed :
        s1 # s2 =>
            /\ SymbolValue(s1) # SymbolValue(s2)
            /\ TotalShares(inventory, s1) = TotalShares(inventory, s2)
                 => Popularity(inventory, s1) # Popularity(inventory, s2)

\* C14: a decay pass over a listing that is no larger than the threshold
\* returns an empty list and leaves the listing, the owner maps, every price
\* and every history as they were.
C14_DecayNoOpUnderThreshold ==
    [][ ( lastOp'.op = "decay" /\ Len(stock_symbols) <= STOCK_DECAY_THRESHOLD )
          => /\ lastOp'.result = "ok"
             /\ lastOp'.ret = << >>
             /\ UNCHANGED market ]_vars
C14_Witness ==
    /\ lastOp.op = "decay" /\ lastOp.result = "ok"
    /\ Len(stock_symbols) = STOCK_DECAY_THRESHOLD
    /\ lastOp.ret = << >>

\* C15: a decay pass changes the symbols of the decay set and no other: each
\* gets round(max(0.01, price * (1 - percent/100)), 2) as its price and as one
\* new last history entry; every other price and history stays as it was.
C15_DecayChangesDecaySet ==
    [][ ( lastOp'.op = "decay" /\ lastOp'.result = "ok" ) =>
          /\ SeqRange(lastOp'.ret)
               = SeqRange(stocks_to_decay(stock_symbols, inventory))
          /\ DOMAIN stock_prices' = DOMAIN stock_prices
          /\ DOMAIN price_history' = DOMAIN price_history
          /\ \A s \in DOMAIN stock_prices :
               IF s \in SeqRange(lastOp'.ret)
               THEN LET exact == Max(100, stock_prices[s] * (100 - STOCK_DECAY_PERCENT))
                    IN  /\ InRange(100 * stock_prices'[s], exact - 50, exact + 50)
                        /\ price_history'[s]
                             = Append(price_history[s], stock_prices'[s])
               ELSE /\ stock_prices'[s] = stock_prices[s]
                    /\ s \in DOMAIN price_history
                         => price_history'[s] = price_history[s]
      ]_vars
C15_Witness ==
    /\ lastOp.op = "decay" /\ lastOp.result = "ok"
    /\ lastOp.ret = << "$DAR" >>
    /\ Len(price_history["$DAR"]) = 3
    /\ price_history["$DAR"][2] > price_history["$DAR"][1]
    /\ price_history["$DAR"][3] < price_history["$DAR"][2]
    /\ stock_prices["$DAR"] = price_history["$DAR"][3]
    /\ price_history["$TOST"] = << 9000 >>
    /\ stock_prices["$TOST"] = 9000

\* C16: a decay pass removes no symbol: the listing is as before, every listed
\* symbol still has a price, and every decayed price is at least 0.01.
C16_DecayNeverBankrupts ==
    [][ lastOp'.op = "decay" =>
          /\ stock_symbols' = stock_symbols
          /\ \A s \in Listed :
               /\ s \in DOMAIN stock_prices'
               /\ s \in DOMAIN price_history'
               /\ s \in SeqRange(lastOp'.ret) => stock_prices'[s] >= 1
      ]_vars
\* a symbol decayed to the bankruptcy threshold or below is still listed
C16_Witness ==
    /\ lastOp.op = "decay" /\ lastOp.result = "ok"
    /\ \E s \in SeqRange(lastOp.ret) :
         /\ stock_prices[s] <= Cents(STOCK_BANKRUPTCY_THRESHOLD)
         /\ stock_prices[s] = 1
         /\ s \in Listed

\* C17: a buy of a listed symbol returns the price before the purchase, which
\* is the amount charged, and commits a price between max(floor, pre + buyMin)
\* and max(floor, pre + buyMax); the returned price is not the committed one.
C17_BuyReturnsPrePrice ==
    [][ ( lastOp'.op = "buy" /\ lastOp'.result = "ok" /\ lastOp'.sym \in Listed ) =>
          LET s   == lastOp'.sym
              pre == stock_prices[s]
          IN  /\ lastOp'.ret = pre
              /\ balance'[lastOp'.user] = balance[lastOp'.user] - pre
              /\ InRange(stock_prices'[s],
                         Max(Cents(PRICE_FLOOR), pre + Cents(STOCK_BUY_MIN_CHANGE)),
                         Max(Cents(PRICE_FLOOR), pre + Cents(STOCK_BUY_MAX_CHANGE)))
              /\ lastOp'.ret # stock_prices'[s]
      ]_vars
C17_Witness ==
    /\ lastOp.op = "buy" /\ lastOp.result = "ok" /\ lastOp.sym \in Listed
    /\ price_history[lastOp.sym] = << lastOp.ret, stock_prices[lastOp.sym] >>
    /\ lastOp.ret = Cents(NEW_STOCK_MIN_PRICE)
    /\ stock_prices[lastOp.sym] = lastOp.ret + Cents(STOCK_BUY_MAX_CHANGE)
    /\ inventory[lastOp.user][lastOp.sym] = 1

\* C18: a sell of a listed symbol returns the price before the sale less the
\* selling fee, which is the amount credited, and commits a price between
\* max(floor, pre - sellMax) and max(floor, pre - sellMin); at 50.00 with a
\* change of 5 it returns 43.00 and commits 45.00.
C18_SellReturnsPreLessFee ==
    [][ /\ ( lastOp'.op = "sell" /\ lastOp'.result = "ok" /\ lastOp'.sym \in Listed ) =>
            LET s   == lastOp'.sym
                pre == stock_prices[s]
            IN  /\ lastOp'.ret = pre - Cents(SELLING_FEE)
                /\ balance'[lastOp'.user] = balance[lastOp'.user] + lastOp'.ret
                /\ InRange(stock_prices'[s],
                           Max(Cents(PRICE_FLOOR), pre - Cents(STOCK_SELL_MAX_CHANGE)),
                           Max(Cents(PRICE_FLOOR), pre - Cents(STOCK_SELL_MIN_CHANGE)))
        /\ \A up \in BOOLEAN :
            LET r == StockManager_sell_stock([ x \in { "$DAR" } |-> Cents(50) ],
                                             [ x \in { "$DAR" } |-> << Cents(50) >> ],
                                             "$DAR", Mills(5), up)
            IN  /\ ~r.raised
                /\ r.ret = Cents(43)
                /\ r.prices["$DAR"] = Cents(45)
                /\ r.hist["$DAR"] = << Cents(50), Cents(45) >>
      ]_vars
C18_Witness ==
    /\ lastOp.op = "sell" /\ lastOp.result = "ok" /\ lastOp.sym \in Listed
    /\ LET h == price_history[lastOp.sym] IN
         /\ Len(h) = 3
         /\ h[2] > Cents(SELLING_FEE) + Cents(STOCK_SELL_MAX_CHANGE)
         /\ lastOp.ret = h[2] - Cents(SELLING_FEE)
         /\ h[3] < h[2]
         /\ lastOp.ret # h[3]
         /\ stock_prices[lastOp.sym] = h[3]

\* C19: a buy or a sell of a symbol that is not listed never succeeds and
\* leaves the price and the history of every unlisted symbol as they were:
\* none is written, appended to or created.
C19_UnlistedTradeChangesNothing ==
    [][ lastOp'.op \in { "buy", "sell" } =>
          /\ lastOp'.result = "ok" => lastOp'.sym \in Listed
          /\ \A s \in Symbols \ Listed :
               /\ s \in DOMAIN stock_prices' <=> s \in DOMAIN stock_prices
               /\ s \in DOMAIN price_history' <=> s \in DOMAIN price_history
               /\ s \in DOMAIN stock_prices => stock_prices'[s] = stock_prices[s]
               /\ s \in DOMAIN price_history => price_history'[s] = price_history[s]
      ]_vars

\* C20: a symbol listed by a successful create, and every symbol listed by the
\* initial stock generation, has a price inside the new-listing band and a
\* history of exactly one entry, equal to that price.
InBand(price) ==
    InRange(price, Cents(NEW_STOCK_MIN_PRICE), Cents(NEW_STOCK_MAX_PRICE))
FreshListing(s) ==
    /\ s \in Listed
    /\ s \in DOMAIN stock_prices
    /\ s \in DOMAIN price_history
    /\ InBand(stock_prices[s])
    /\ price_history[s] = << stock_prices[s] >>
C20_NewListingInBand ==
    /\ steps = 0 => \A s \in SeqRange(STOCK_SYMBOLS) : FreshListing(s)
    /\ ( lastOp.op = "create" /\ lastOp.result = "ok" ) => FreshListing(lastOp.sym)
C20_Witness ==
    /\ lastOp.op = "create" /\ lastOp.result = "ok"
    /\ lastOp.sym \notin SeqRange(STOCK_SYMBOLS)
    /\ FreshListing(lastOp.sym)
    /\ stock_prices[lastOp.sym] = Cents(NEW_STOCK_MAX_PRICE)
    /\ balance[lastOp.user] = 0

\* C21: a tick that follows any creations and bankruptcies completes without
\* error, appends exactly one entry, the new price, to the history of every
\* symbol listed at that time, and touches no symbol that is not listed.
C21_TickCoversListing ==
    [][ lastOp'.op = "tick" =>
          /\ lastOp'.result = "ok"
          /\ \A s \in Listed :
                /\ s \in DOMAIN price_history
                /\ s \in DOMAIN price_history'
                /\ price_history'[s] = Append(price_history[s], stock_prices'[s])
          /\ \A s \in Symbols \ Listed :
                /\ s \in DOMAIN stock_prices' <=> s \in DOMAIN stock_prices
                /\ s \in DOMAIN stock_prices => stock_prices'[s] = stock_prices[s]
      ]_vars

\* The symbols of a preview list, in its order.
RiskSymbols(r) == [ n \in 1..Len(r) |-> r[n][1] ]
\* The preview r of a ranking: empty at or under the threshold; over it,
\* excess + min(3, total - excess) entries that are the first symbols of the
\* ranking, the first excess of them at 100%.
PreviewOf(sorted, threshold, r) ==
    LET total == Len(sorted)
        excess == total - threshold
    IN  IF total <= threshold
        THEN r = << >>
        ELSE /\ Len(r) = excess + Min(3, total - excess)
             /\ \A n \in 1..Len(r) : r[n][1] = sorted[n]
             /\ \A n \in 1..excess : r[n][2] = 1000

\* C22: over the threshold the decay-risk preview returns exactly
\* excess + min(3, total - excess) symbols, the first of the ascending
\* popularity ranking of the decay pass, and its first excess entries, at
\* 100%, are exactly the symbols the next decay pass on the unchanged state
\* decays; at or under the threshold it returns the empty list.
C22_PreviewMatchesDecay ==
    /\ \A n \in 0..MaxRanked, t \in 0..MaxRanked :
          LET sorted == [ i \in 1..n |-> i ] IN
          PreviewOf(sorted, t, risk_stocks(sorted, t))
    /\ lastOp.op = "risk" =>
          LET sorted == sorted_stocks(get_all_symbols, inventory)
              excess == Max(0, Len(sorted) - STOCK_DECAY_THRESHOLD)
          IN  /\ PreviewOf(sorted, STOCK_DECAY_THRESHOLD, lastOp.ret)
              /\ Len(lastOp.ret) >= excess
              /\ \A up \in BOOLEAN :
                    decay_from(1, stocks_to_decay(get_all_symbols, inventory),
                               stock_prices, price_history, up).decayed
                      = SubSeq(RiskSymbols(lastOp.ret), 1, excess)
\* a preview of three listed symbols, one of them held, whose ranking is not
\* the listing order
C22_Witness ==
    /\ lastOp.op = "risk"
    /\ Len(stock_symbols) = 3
    /\ Len(lastOp.ret) = 3
    /\ \E s \in Listed : TotalShares(inventory, s) > 0
    /\ RiskSymbols(lastOp.ret) # stock_symbols

\* C23: in the preview every excess symbol has risk 100%, the risks of the
\* buffer symbols do not increase with rank, and the last buffer symbol has
\* risk 25%.
C23_BufferRiskDownTo25 ==
    lastOp.op = "risk" =>
        LET r == lastOp.ret
            excess == Max(0, Len(stock_symbols) - STOCK_DECAY_THRESHOLD)
        IN  /\ \A n \in 1..Min(excess, Len(r)) : r[n][2] = 1000
            /\ \A n \in (excess + 1)..(Len(r) - 1) : r[n][2] >= r[n + 1][2]
            /\ Len(r) > excess => r[Len(r)][2] = 250

BadSnapshots == Snapshots \ { "saved" }

\* C25: loading from a missing, unreadable, non-JSON or structurally
\* incomplete snapshot never raises, and leaves a fresh valid state: every
\* configured symbol has a price in the new-listing band and a history of
\* that one price.
C25_LoadRegenerates ==
    [][ ( lastOp'.op = "load" /\ lastOp'.ret \in BadSnapshots ) =>
          /\ lastOp'.result = "ok"
          /\ \A s \in SeqRange(STOCK_SYMBOLS) :
                /\ s \in DOMAIN stock_prices'
                /\ s \in DOMAIN price_history'
                /\ InBand(stock_prices'[s])
                /\ price_history'[s] = << stock_prices'[s] >>
      ]_vars

\* q continues p: nothing of p was discarded.
Continues(p, q) == Len(p) <= Len(q) /\ SubSeq(q, 1, Len(p)) = p

\* C27: price and history are removed only by bankruptcy: a step of tick,
\* buy, sell, decay, admin add or subtract, create or (re)load keeps every
\* listed symbol in the price map and in the history map with all of its
\* history, and the price map and the history map always have the listing as
\* their key set.
C27_OnlyBankruptcyRemoves ==
    [][ /\ lastOp'.op \in { "tick", "buy", "sell", "decay", "admin_add",
                            "admin_sub", "create", "load" } =>
              \A s \in Listed :
                  /\ s \in DOMAIN stock_prices => s \in DOMAIN stock_prices'
                  /\ s \in DOMAIN price_history =>
                        /\ s \in DOMAIN price_history'
                        /\ Continues(price_history[s], price_history'[s])
        /\ DOMAIN stock_prices' = Listed'
        /\ DOMAIN price_history' = Listed'
      ]_vars

\* C26: outside bankruptcy no price of 0 or less is committed: an admin add
\* or subtract whose result is 0 or less is rejected and changes nothing, and
\* every value an admin add or subtract stores, after rounding, is above 0.
C26_AdminCommitsPositive ==
    [][ lastOp'.op \in { "admin_add", "admin_sub" } =>
          /\ lastOp'.result = "rejected" => UNCHANGED << market, ledger >>
          /\ lastOp'.result = "ok" =>
                /\ lastOp'.ret > 0
                /\ stock_prices'[lastOp'.sym] > 0
                /\ Last(price_history'[lastOp'.sym]) > 0
      ]_vars

\* C28: a successful chart-view buy is one step in which the buyer is debited
\* exactly the price StockManager.buy_stock returns, the price current just
\* before the buy's own write, gains exactly one share, and the history of
\* the symbol grows by exactly one entry; nothing else of the ledger or of the
\* market changes in that step.
C28_BuyIsOneStep ==
    [][ ( lastOp'.op = "buy" /\ lastOp'.result = "ok" ) =>
          LET u == lastOp'.user
              s == lastOp'.sym
          IN  /\ lastOp'.ret = stock_prices[s]
              /\ balance' = [ balance EXCEPT ![u] = @ - lastOp'.ret ]
              /\ inventory' = [ inventory EXCEPT ![u][s] = @ + 1 ]
              /\ Len(price_history'[s]) = Len(price_history[s]) + 1
              /\ price_history' =
                    [ price_history EXCEPT ![s] = Append(@, stock_prices'[s]) ]
              /\ \A t \in DOMAIN stock_prices' \ { s } :
                    t \in DOMAIN stock_prices /\ stock_prices'[t] = stock_prices[t]
              /\ UNCHANGED registry
      ]_vars
\* a buy at a price that an earlier handler had moved, with the price moved on
\* by the buy itself
C28_Witness ==
    /\ lastOp.op = "buy" /\ lastOp.result = "ok"
    /\ Len(price_history[lastOp.sym]) = 3
    /\ lastOp.ret = price_history[lastOp.sym][2]
    /\ lastOp.ret # price_history[lastOp.sym][1]
    /\ stock_prices[lastOp.sym] > lastOp.ret
    /\ inventory[lastOp.user][lastOp.sym] = 1

\* C29: a rejected trade changes nothing: a buy by a user whose balance is
\* below the current price and a sell by a user who holds no share of the
\* symbol are rejected and leave prices, histories, balances and holdings as
\* they were.
C29_RejectedTradeNoChange ==
    [][ ( /\ lastOp'.user \in Users
          /\ \/ /\ lastOp'.op = "buy"
                /\ lastOp'.sym \in DOMAIN stock_prices
                /\ balance[lastOp'.user] < stock_prices[lastOp'.sym]
             \/ /\ lastOp'.op = "sell"
                /\ ~Holds(inventory, lastOp'.user, lastOp'.sym) ) =>
          /\ lastOp'.result = "rejected"
          /\ UNCHANGED << market, ledger >>
      ]_vars
\* a buy rejected after the user spent on another share
C29_Witness ==
    /\ lastOp.op = "buy" /\ lastOp.result = "rejected"
    /\ balance[lastOp.user] < stock_prices[lastOp.sym]
    /\ \E s \in Symbols : inventory[lastOp.user][s] > 0

\* C30: balances start at 0 or more, and no sequence of gift, buy, sell and
\* IPO drives the balance of any user below 0, while prices move by tick, buy,
\* sell, decay and admin adjustment.
C30_BalancesNonNegative ==
    \A u \in Users : balance[u] >= 0

\* C31: a sell never raises the listed price: whatever the price of the
\* symbol was before the sale, prices under the floor included, the price the
\* sale commits is at most the price before it.
C31_SellNeverRaises ==
    [][ ( lastOp'.op = "sell" /\ lastOp'.result = "ok" ) =>
          stock_prices'[lastOp'.sym] <= stock_prices[lastOp'.sym]
      ]_vars

\* Over the symbols of the IPO format, fewer shares give the lower score.
IpoSharesDominate ==
    \A a \in IpoSymbols, b \in IpoSymbols :
        \A m \in 0..MaxShares, n \in 0..MaxShares :
            m < n => popularity_score(m, a) < popularity_score(n, b)

\* C32: the share count dominates the tie-break: of two symbols in the IPO
\* format the one with strictly fewer shares held has the strictly lower
\* popularity score, whatever the symbols are, and so it is for every two
\* listed symbols.
C32_SharesDominate ==
    /\ IpoSharesDominate
    /\ \A s \in Listed, t \in Listed :
          TotalShares(inventory, s) < TotalShares(inventory, t) =>
              Popularity(inventory, s) < Popularity(inventory, t)
\* the symbol with the larger tie-break term and no share decays, the held
\* symbol with the smaller term is spared
C32_Witness ==
    /\ lastOp.op = "decay" /\ lastOp.result = "ok"
    /\ \E s \in Listed, t \in Listed :
          /\ TotalShares(inventory, s) < TotalShares(inventory, t)
          /\ SymbolValue(s) > SymbolValue(t)
          /\ lastOp.ret = << s >>

\* C33: the bankruptcy of a symbol executes at most once: whatever the order
\* of the confirm clicks on the views of a symbol, handle_bankruptcy is
\* invoked for it only while it is still listed, and a cancel click or an
\* admin_bankrupt command that is not confirmed changes no price, listing or
\* holding.
C33_BankruptcyAtMostOnce ==
    [][ /\ ( lastOp'.op = "confirm" /\ lastOp'.result # "permission" ) =>
              lastOp'.sym \in Listed
        /\ lastOp'.op \in { "cancel", "admin_bankrupt" } =>
              UNCHANGED << market, inventory >>
      ]_vars

C35_NonAdminChangesNothing ==
    [][ ( /\ lastOp'.op \in { "admin_add", "admin_sub", "admin_bankrupt", "confirm" }
          /\ lastOp'.user \notin ADMIN_USER_IDS ) =>
          /\ lastOp'.result = "permission"
          /\ UNCHANGED << market, ledger, views >>
      ]_vars
\* a confirm click by a user who is no admin, on an open view of a listed
\* symbol
C35_Witness ==
    /\ lastOp.op = "confirm" /\ lastOp.result = "permission"
    /\ lastOp.user \notin ADMIN_USER_IDS
    /\ lastOp.sym \in Listed
    /\ views[lastOp.sym] > 0

====
